---------------------------- MODULE Spec2Model ----------------------------
(***************************************************************************)
(* Node-id allocation and clock-rollback protocol of snowflake-gorm:       *)
(* the hash / random node-id strategies, the gorm NodeIdAllocator.Alloc    *)
(* protocol against the snowflake_kv table, and the TimeSynchronizer       *)
(* (Async / Run / updateDB).                                               *)
(*                                                                         *)
(* Time is counted in milliseconds.  A 64-bit word is a tuple of 8 bytes,  *)
(* least significant first, so that 64-bit wrap-around arithmetic is exact.*)
(***************************************************************************)
EXTENDS Integers, Sequences, FiniteSets, TLC

(***************************************************************************)
(* 64-bit arithmetic on little-endian byte tuples                          *)
(***************************************************************************)
Limbs == 1..8

ZeroW == <<0, 0, 0, 0, 0, 0, 0, 0>>

RECURSIVE Pow2(_)
Pow2(n) == IF n = 0 THEN 1 ELSE 2 * Pow2(n - 1)

\* a word is 8 bytes (the operations below take computed words)
IsWord(a) == Len(a) = 8

Get(a, j) == IF j \in Limbs THEN a[j] ELSE 0

\* the word whose k-th byte is f(k)
Word(f(_)) == <<f(1), f(2), f(3), f(4), f(5), f(6), f(7), f(8)>>

RECURSIVE AddCarry(_, _, _, _)
AddCarry(a, b, i, c) ==
    IF i > 8 THEN <<>>
    ELSE LET s == a[i] + b[i] + c
         IN  <<s % 256>> \o AddCarry(a, b, i + 1, s \div 256)

AddW(a, b) == IF IsWord(a) /\ IsWord(b) THEN AddCarry(a, b, 1, 0) ELSE ZeroW

RECURSIVE Col(_, _, _, _)
Col(a, b, k, i) == IF i > k THEN 0 ELSE a[i] * b[k + 1 - i] + Col(a, b, k, i + 1)

RECURSIVE MulCarry(_, _, _, _)
MulCarry(a, b, k, c) ==
    IF k > 8 THEN <<>>
    ELSE LET s == c + Col(a, b, k, 1)
         IN  <<s % 256>> \o MulCarry(a, b, k + 1, s \div 256)

MulW(a, b) == IF IsWord(a) /\ IsWord(b) THEN MulCarry(a, b, 1, 0) ELSE ZeroW

RECURSIVE XorN(_, _)
XorN(x, y) ==
    IF x = 0 THEN y
    ELSE IF y = 0 THEN x
    ELSE ((x + y) % 2) + 2 * XorN(x \div 2, y \div 2)

XorW(a, b) == IF IsWord(a) /\ IsWord(b) THEN Word(LAMBDA i : XorN(a[i], b[i])) ELSE ZeroW

ShlW(a, r) ==
    LET q == r \div 8
        s == r % 8
    IN  Word(LAMBDA k : ((Get(a, k - q) * Pow2(s)) % 256)
                         + (Get(a, k - q - 1) \div Pow2(8 - s)))

ShrW(a, r) ==
    LET q == r \div 8
        s == r % 8
    IN  Word(LAMBDA k : (Get(a, k + q) \div Pow2(s))
                         + ((Get(a, k + q + 1) * Pow2(8 - s)) % 256))

RotlW(a, r) == LET hi == ShlW(a, r)
                   lo == ShrW(a, 64 - r)
               IN  IF IsWord(a) THEN Word(LAMBDA k : hi[k] + lo[k]) ELSE ZeroW

\* variant: the low 16 bits, no reduction modulo 1024
Mod1024Wide(a) == a[1] + 256 * a[2]

\* the low 10 bits of a word: uint64 % 1024
Mod1024(a) == (a[1] + 256 * a[2]) % 1024

\* binary.LittleEndian.PutUint64 of a non-negative node id
LittleEndianPutUint64(n) == Word(LAMBDA k : IF k <= 3 THEN (n \div Pow2(8 * (k - 1))) % 256 ELSE 0)

\* little-endian read of the w bytes of b that start at position i (1-based)
ReadLE(b, i, w) == Word(LAMBDA k : IF k <= w THEN b[i + k - 1] ELSE 0)

(***************************************************************************)
(* xxhash64 with seed 0 (github.com/cespare/xxhash/v2: New, Write, Sum64)  *)
(***************************************************************************)
PRIME1 == <<135, 202, 235, 133, 177, 121, 55, 158>>
PRIME2 == <<79, 235, 212, 39, 61, 174, 178, 194>>
PRIME3 == <<249, 121, 55, 158, 177, 103, 86, 22>>
PRIME4 == <<99, 174, 178, 194, 119, 202, 235, 133>>
PRIME5 == <<197, 103, 86, 22, 47, 235, 212, 39>>

\* 0 - PRIME1 in 64 bits
NegPRIME1 == AddW(XorW(PRIME1, <<255, 255, 255, 255, 255, 255, 255, 255>>), <<1, 0, 0, 0, 0, 0, 0, 0>>)

XxRound(acc, input) == MulW(RotlW(AddW(acc, MulW(input, PRIME2)), 31), PRIME1)

XxMergeRound(acc, val) == AddW(MulW(XorW(acc, XxRound(ZeroW, val)), PRIME1), PRIME4)

\* the four accumulators over the 32-byte stripes that start at position i
RECURSIVE XxStripes(_, _, _)
XxStripes(b, i, v) ==
    IF IsWord(v[1]) /\ IsWord(v[2]) /\ IsWord(v[3]) /\ IsWord(v[4]) /\ i + 31 <= Len(b)
    THEN XxStripes(b, i + 32,
                   <<XxRound(v[1], ReadLE(b, i, 8)), XxRound(v[2], ReadLE(b, i + 8, 8)),
                     XxRound(v[3], ReadLE(b, i + 16, 8)), XxRound(v[4], ReadLE(b, i + 24, 8))>>)
    ELSE v

\* one step of the tail at position i: an 8-byte word, else a 4-byte word,
\* else a single byte
XxTailStep(b, i, h) ==
    IF i + 7 <= Len(b)
    THEN AddW(MulW(RotlW(XorW(h, XxRound(ZeroW, ReadLE(b, i, 8))), 27), PRIME1), PRIME4)
    ELSE IF i + 3 <= Len(b)
    THEN AddW(MulW(RotlW(XorW(h, MulW(ReadLE(b, i, 4), PRIME1)), 23), PRIME2), PRIME3)
    ELSE MulW(RotlW(XorW(h, MulW(ReadLE(b, i, 1), PRIME5)), 11), PRIME1)

XxTailWidth(b, i) == IF i + 7 <= Len(b) THEN 8 ELSE IF i + 3 <= Len(b) THEN 4 ELSE 1

\* the tail of the input from position i on (h is a computed word on entry)
RECURSIVE XxTail(_, _, _)
XxTail(b, i, h) ==
    IF IsWord(h) /\ i <= Len(b)
    THEN XxTail(b, i + XxTailWidth(b, i), XxTailStep(b, i, h))
    ELSE h

XxAvalanche(h) ==
    LET h1 == MulW(XorW(h, ShrW(h, 33)), PRIME2)
        h2 == MulW(XorW(h1, ShrW(h1, 29)), PRIME3)
    IN  XorW(h2, ShrW(h2, 32))

Sum64(b) ==
    LET n     == Len(b)
        full  == 32 * (n \div 32)
        v     == XxStripes(b, 1, <<AddW(PRIME1, PRIME2), PRIME2, ZeroW, NegPRIME1>>)
        mixed == XxMergeRound(XxMergeRound(XxMergeRound(XxMergeRound(
                     AddW(AddW(RotlW(v[1], 1), RotlW(v[2], 7)),
                          AddW(RotlW(v[3], 12), RotlW(v[4], 18))),
                     v[1]), v[2]), v[3]), v[4])
        h0    == IF n >= 32 THEN mixed ELSE PRIME5
    IN  XxAvalanche(XxTail(b, full + 1, AddW(h0, LittleEndianPutUint64(n))))

(***************************************************************************)
(* Node-id strategies                                                      *)
(***************************************************************************)
NodeIds == 0..1023

\* HashNodeIdAllocator.Alloc: xxhash64 of the key, modulo 1024
HashAlloc(keyBytes) == Mod1024(Sum64(keyBytes))

\* HashNodeIdAllocator.Migration: xxhash64 of the 8 little-endian bytes of
\* the old node id, modulo 1024
HashMigration(oldNodeId) == Mod1024(Sum64(LittleEndianPutUint64(oldNodeId)))

\* the argument RandNodeIdAllocator passes to rand.Int64N
RandRange == 1023

\* variant: the bound is included
RandInt64NInclusive(n) == 0..n

\* rand.Int64N(n): the values a call may return, the half-open interval [0, n)
RandInt64N(n) == 0..(n - 1)

\* RandNodeIdAllocator.Alloc: "return rand.Int64N(1023), nil"
RandAlloc == RandInt64N(RandRange)

\* RandNodeIdAllocator.Migration: the old node id is not looked at
RandMigration(oldNodeId) == RandInt64N(RandRange)

(***************************************************************************)
(* Configuration and bounds                                                *)
(***************************************************************************)
\* identity keys, as GetNodeIdKey builds them: name_ip_port_deployType
\*   1: "testname_10.0.0.1_8080_physical"
\*   2: "testname_10.0.0.1_8106_physical"  (same hash node id as key 1)
\*   3: "testname_10.0.0.1_9090_physical"
KeyBytes ==
    <<  <<116, 101, 115, 116, 110, 97, 109, 101, 95, 49, 48, 46, 48, 46, 48, 46, 49, 95,
          56, 48, 56, 48, 95, 112, 104, 121, 115, 105, 99, 97, 108>>,
        <<116, 101, 115, 116, 110, 97, 109, 101, 95, 49, 48, 46, 48, 46, 48, 46, 49, 95,
          56, 49, 48, 54, 95, 112, 104, 121, 115, 105, 99, 97, 108>>,
        <<116, 101, 115, 116, 110, 97, 109, 101, 95, 49, 48, 46, 48, 46, 48, 46, 49, 95,
          57, 48, 57, 48, 95, 112, 104, 121, 115, 105, 99, 97, 108>> >>

Keys == 1..3

\* the keys the strategies are called with on their own: the identity keys
\* and the empty key
StrategyKeyBytes == KeyBytes \o << <<>> >>
StrategyKeys == DOMAIN StrategyKeyBytes
EmptyKey == CHOOSE k \in StrategyKeys : Len(StrategyKeyBytes[k]) = 0

\* old node ids handed to the random strategy's Migration
\* (testNodeIds of the strategy tests)
MigrationInputs == {0, 100, 512, 555, 1023}

\* the candidate of every key (evaluated once)
KeyNodeId == [k \in Keys |-> HashAlloc(KeyBytes[k])]

Instances == {"A", "B"}

\* acceptableClockDrift and nodeIdContentionInterval, in milliseconds
AcceptableClockDrift == 1
NodeIdContentionInterval == 2

\* the (wall clock) time at which the model starts and the last instant modelled
StartTime == 20
MaxTime == 23

\* how far a local clock may be set back: within the drift, beyond it
SmallRollback == 1
LargeRollback == 3

\* time.Duration conversions of a duration held in milliseconds
Microseconds(d) == d * 1000
Milliseconds(d) == d

\* the hysteresis threshold of TimeSynchronizer.Async
AsyncThreshold == 10

\* goroutines that call Async on the synchronizer of instance "A", and the
\* timestamps they push
Callers == {"c1", "c2", "c3"}
PushValues == {0, 50, 60, 61, 100, 200, 300}

(***************************************************************************)
(* State                                                                   *)
(***************************************************************************)
VARIABLES
    now,        \* true time (ms)
    skew,       \* skew[i]: offset of the local clock of instance i
    store,      \* the rows of table snowflake_kv
    nodeIdKey,  \* nodeIdKey[i]: the identity key instance i was built with
    pc,         \* pc[i]: where the Alloc call of instance i stands
    nowMilli,   \* nowMilli[i]: the clock value Alloc read on entry
    nodeId,     \* nodeId[i]: Alloc's current candidate
    saved,      \* saved[i]: the row Alloc looked up / is about to write
    wake,       \* wake[i]: end of Alloc's time.Sleep
    migrated,   \* migrated[i]: the running Alloc went through Migration
    ret,        \* ret[i]: outcome of the last Alloc that returned
    curr,       \* curr[i]: TimeSynchronizer.curr
    apc,        \* apc[c]: where the Async call of caller c stands
    last,       \* last[c]: the value of curr that caller c loaded
    arg,        \* arg[c]: the timestamp caller c is pushing
    pushedMax,  \* the largest timestamp passed to Async so far
    ctxDone,    \* the lifecycle context (m.ctx) has been cancelled
    inflight,   \* the Alloc calls that were running when it was cancelled
    run,        \* run[i]: where the goroutine of TimeSynchronizer.Run stands
    tickC,      \* tickC[i]: a tick is waiting in m.ticker.C
    currentTime,\* currentTime[i]: the value of curr that updateDB loaded
    flush,      \* flush[i]: how the last call of updateDB ended
    call,       \* the call of a node-id strategy made on its own
    result      \* what that call returned

vars == <<now, skew, store, nodeIdKey, pc, nowMilli, nodeId, saved, wake, migrated, ret,
          curr, apc, last, arg, pushedMax, ctxDone, inflight, run, tickC, currentTime, flush,
          call, result>>

stratVars == <<call, result>>

allocVars == <<pc, nowMilli, nodeId, saved, wake, migrated, ret, inflight>>

runVars == <<ctxDone, run, tickC, currentTime, flush>>

pushVars == <<apc, last, arg, pushedMax>>

NoRow == [key |-> 0, nodeId |-> 0, time |-> 0]
NoRet == [status |-> "none", nodeId |-> 0, path |-> "none", migrated |-> FALSE,
          ahead |-> 0, at |-> 0]

NoCall == [strategy |-> "none", op |-> "none", input |-> 0]
NoResult == [returned |-> FALSE, nodeId |-> 0, err |-> FALSE]

\* time.Now() of instance i
LocalNow(i) == now + skew[i]

(***************************************************************************)
(* Table snowflake_kv: `key` is the primary key, node_id is unique         *)
(***************************************************************************)
\* WHERE key = k AND node_id = n
FindRows(st, k, n) == {r \in st : r.key = k /\ r.nodeId = n}

\* variant: a table without constraints
CanInsertAlways(st, row) == TRUE

\* variant: a table with its primary key only
CanInsertKeyOnly(st, row) == \A q \in st : q.key # row.key

\* INSERT is rejected by the primary key on `key` and by the unique
\* constraint snowflake_kv_UN_node_id
CanInsert(st, row) == \A q \in st : q.key # row.key /\ q.nodeId # row.nodeId

\* variant: the time column is not written
AssignNoTime(r, val) == [key    |-> IF val.key # 0 THEN val.key ELSE r.key,
                         nodeId |-> IF val.nodeId # 0 THEN val.nodeId ELSE r.nodeId,
                         time   |-> r.time]

\* Updates(val) of gorm: only the non-zero fields of val are written
Assign(r, val) == [key    |-> IF val.key # 0 THEN val.key ELSE r.key,
                   nodeId |-> IF val.nodeId # 0 THEN val.nodeId ELSE r.nodeId,
                   time   |-> IF val.time # 0 THEN val.time ELSE r.time]

\* variant: the row found is removed instead of renewed
DeleteByKeyNode(st, k, n, val) == st \ FindRows(st, k, n)

\* UPDATE ... WHERE key = k AND node_id = n
UpdateByKeyNode(st, k, n, val) ==
    {IF r.key = k /\ r.nodeId = n THEN Assign(r, val) ELSE r : r \in st}

\* variant: the statement is refused for want of a WHERE clause
UpdateByKeyRefused(st, val) == st

\* variant: no WHERE clause, every row is updated
UpdateByKeyAll(st, val) == {Assign(r, val) : r \in st}

\* UPDATE ... WHERE key = val.key (the primary key of the value updated)
UpdateByKey(st, val) ==
    {IF r.key = val.key THEN Assign(r, val) ELSE r : r \in st}

(***************************************************************************)
(* NodeIdAllocator.Alloc                                                   *)
(***************************************************************************)
\* variant: the comparison the other way round
WithinDriftReversed(nowMs, savedTime) ==
    nowMs - Microseconds(AcceptableClockDrift) >= savedTime

\* "if nowMilli-m.acceptableClockDrift.Microseconds() <= saved.Time"
WithinDrift(nowMs, savedTime) == nowMs - Microseconds(AcceptableClockDrift) <= savedTime

\* variant: the interval taken in microseconds
ContendedMicros(nowMs, savedTime) ==
    nowMs - Microseconds(NodeIdContentionInterval) > savedTime

\* "if nowMilli-m.nodeIdContentionInterval.Milliseconds() > saved.Time"
Contended(nowMs, savedTime) == nowMs - Milliseconds(NodeIdContentionInterval) > savedTime

\* variant: NodeID is set on the contended path only
RenewedNodeIdUnset(cand, r, nowMs) == IF Contended(nowMs, r.time) THEN cand ELSE 0

\* variant: a contended row is given a fresh node id
RenewedNodeIdFresh(cand, r, nowMs) ==
    IF Contended(nowMs, r.time) THEN HashMigration(cand) ELSE r.nodeId

\* "if contended { saved.NodeID = nodeId }": the node id of the row to write
RenewedNodeId(cand, r, nowMs) == IF Contended(nowMs, r.time) THEN cand ELSE r.nodeId

\* variant: Time left unset
NewRowNoTime(k, n, t) == [key |-> k, nodeId |-> n, time |-> 0]

\* the row Alloc creates: Key, NodeID, Time = nowMilli
NewRow(k, n, t) == [key |-> k, nodeId |-> n, time |-> t]

\* the locals of a call do not outlive it
ClearLocals(i) ==
    /\ nowMilli' = [nowMilli EXCEPT ![i] = 0]
    /\ nodeId' = [nodeId EXCEPT ![i] = 0]
    /\ saved' = [saved EXCEPT ![i] = NoRow]
    /\ wake' = [wake EXCEPT ![i] = 0]
    /\ inflight' = inflight \ {i}

\* how far the row the call looked up was ahead of the clock read on entry
Ahead(i) == IF saved[i].time > nowMilli[i] THEN saved[i].time - nowMilli[i] ELSE 0

\* return (n, nil); ret records the path taken, and when
Return(i, n, path) ==
    /\ pc' = [pc EXCEPT ![i] = "idle"]
    /\ ClearLocals(i)
    /\ ret' = [ret EXCEPT ![i] = [status |-> "ok", nodeId |-> n, path |-> path,
                                  migrated |-> migrated[i],
                                  ahead |-> IF path = "wait" THEN Ahead(i) ELSE 0,
                                  at |-> now]]

\* variant: the candidate is returned although the call failed
ReturnErrFallback(i, path) ==
    /\ pc' = [pc EXCEPT ![i] = "idle"]
    /\ ClearLocals(i)
    /\ ret' = [ret EXCEPT ![i] = [status |-> "ok", nodeId |-> nodeId[i], path |-> path,
                                  migrated |-> migrated[i], ahead |-> 0, at |-> now]]

\* variant: a failed store call is made again instead of being reported
ReturnErrRetry(i, path) ==
    /\ pc' = [pc EXCEPT ![i] = "lookup"]
    /\ UNCHANGED <<nowMilli, nodeId, saved, wake, inflight, ret>>

\* return (0, err)
ReturnErr(i, path) ==
    /\ pc' = [pc EXCEPT ![i] = "idle"]
    /\ ClearLocals(i)
    /\ ret' = [ret EXCEPT ![i] = [status |-> "err", nodeId |-> 0, path |-> path,
                                  migrated |-> migrated[i], ahead |-> 0, at |-> 0]]

\* entry: read the clock, ask the strategy for the candidate
AllocStart(i) ==
    /\ pc[i] = "idle"
    /\ nowMilli' = [nowMilli EXCEPT ![i] = LocalNow(i)]
    /\ nodeId' = [nodeId EXCEPT ![i] = KeyNodeId[nodeIdKey[i]]]
    /\ migrated' = [migrated EXCEPT ![i] = FALSE]
    /\ pc' = [pc EXCEPT ![i] = "lookup"]
    /\ UNCHANGED <<now, skew, store, nodeIdKey, saved, wake, ret, curr, inflight>>
    /\ UNCHANGED pushVars
    /\ UNCHANGED runVars
    /\ UNCHANGED stratVars

\* variant: the strategy's error is ignored and the lookup goes on with the
\* zero node id
AllocStrategyErrorIgnored(i) ==
    /\ pc[i] = "idle"
    /\ nowMilli' = [nowMilli EXCEPT ![i] = LocalNow(i)]
    /\ nodeId' = [nodeId EXCEPT ![i] = 0]
    /\ migrated' = [migrated EXCEPT ![i] = FALSE]
    /\ pc' = [pc EXCEPT ![i] = "lookup"]
    /\ UNCHANGED <<now, skew, store, nodeIdKey, saved, wake, ret, curr, inflight>>
    /\ UNCHANGED pushVars
    /\ UNCHANGED runVars
    /\ UNCHANGED stratVars

\* entry, the strategy's Alloc returns an error: "return 0, err"
AllocStrategyError(i) ==
    /\ pc[i] = "idle"
    /\ migrated' = [migrated EXCEPT ![i] = FALSE]
    /\ ReturnErr(i, "strategy-error")
    /\ UNCHANGED <<now, skew, store, nodeIdKey, curr>>
    /\ UNCHANGED pushVars
    /\ UNCHANGED runVars
    /\ UNCHANGED stratVars

\* a store call made WithContext(m.ctx) after m.ctx was cancelled returns
\* the context's error
AllocCancelled(i) ==
    /\ pc[i] \in {"lookup", "create", "update", "takeover"}
    /\ ctxDone
    /\ ReturnErr(i, "context-canceled")
    /\ UNCHANGED <<now, skew, store, nodeIdKey, migrated, curr>>
    /\ UNCHANGED pushVars
    /\ UNCHANGED runVars
    /\ UNCHANGED stratVars

\* First() fails with an error other than ErrRecordNotFound
AllocFindError(i) ==
    /\ pc[i] = "lookup"
    /\ ~ctxDone
    /\ ReturnErr(i, "lookup-error")
    /\ UNCHANGED <<now, skew, store, nodeIdKey, migrated, curr>>
    /\ UNCHANGED pushVars
    /\ UNCHANGED runVars
    /\ UNCHANGED stratVars

\* variant: the candidate is returned without being persisted
AllocNotFoundNoCreate(i) ==
    /\ pc[i] = "lookup"
    /\ ~ctxDone
    /\ FindRows(store, nodeIdKey[i], nodeId[i]) = {}
    /\ Return(i, nodeId[i], "create")
    /\ UNCHANGED <<now, skew, store, nodeIdKey, migrated, curr>>
    /\ UNCHANGED pushVars
    /\ UNCHANGED runVars
    /\ UNCHANGED stratVars

\* First() returns ErrRecordNotFound: build the row to create
AllocNotFound(i) ==
    /\ pc[i] = "lookup"
    /\ ~ctxDone
    /\ FindRows(store, nodeIdKey[i], nodeId[i]) = {}
    /\ saved' = [saved EXCEPT ![i] = NewRow(nodeIdKey[i], nodeId[i], nowMilli[i])]
    /\ pc' = [pc EXCEPT ![i] = "create"]
    /\ UNCHANGED <<now, skew, store, nodeIdKey, nowMilli, nodeId, wake, migrated, ret, curr,
                   inflight>>
    /\ UNCHANGED pushVars
    /\ UNCHANGED runVars
    /\ UNCHANGED stratVars

\* First() returns a row: the decisions of the loop body up to the next
\* store call, sleep or lookup
AllocFound(i) ==
    /\ pc[i] = "lookup"
    /\ ~ctxDone
    /\ \E r \in FindRows(store, nodeIdKey[i], nodeId[i]) :
          IF r.time > nowMilli[i]
          THEN IF WithinDrift(nowMilli[i], r.time)
               THEN /\ saved' = [saved EXCEPT ![i] = r]
                    /\ wake' = [wake EXCEPT ![i] = now + AcceptableClockDrift]
                    /\ pc' = [pc EXCEPT ![i] = "sleep"]
                    /\ UNCHANGED <<nodeId, migrated>>
               ELSE /\ saved' = [saved EXCEPT ![i] = r]
                    /\ nodeId' = [nodeId EXCEPT ![i] = HashMigration(nodeId[i])]
                    /\ migrated' = [migrated EXCEPT ![i] = TRUE]
                    /\ UNCHANGED <<wake, pc>>
          ELSE /\ saved' = [saved EXCEPT ![i] =
                      [key    |-> r.key,
                       nodeId |-> RenewedNodeId(nodeId[i], r, nowMilli[i]),
                       time   |-> nowMilli[i]]]
               /\ pc' = [pc EXCEPT ![i] = IF Contended(nowMilli[i], r.time)
                                          THEN "takeover" ELSE "update"]
               /\ UNCHANGED <<nodeId, migrated, wake>>
    /\ UNCHANGED <<now, skew, store, nodeIdKey, nowMilli, ret, curr, inflight>>
    /\ UNCHANGED pushVars
    /\ UNCHANGED runVars
    /\ UNCHANGED stratVars

\* Create(saved): inserted, rejected by a constraint, or the store fails
AllocCreate(i) ==
    /\ pc[i] = "create"
    /\ ~ctxDone
    /\ \/ /\ CanInsert(store, saved[i])
          /\ store' = store \cup {saved[i]}
          /\ Return(i, saved[i].nodeId, "create")
       \/ /\ ~CanInsert(store, saved[i])
          /\ ReturnErr(i, "duplicate")
          /\ UNCHANGED store
       \/ /\ ReturnErr(i, "create-error")
          /\ UNCHANGED store
    /\ UNCHANGED <<now, skew, nodeIdKey, migrated, curr>>
    /\ UNCHANGED pushVars
    /\ UNCHANGED runVars
    /\ UNCHANGED stratVars

\* variant: after the sleep the lookup is made again
AllocWakeRetry(i) ==
    /\ pc[i] = "sleep"
    /\ now >= wake[i]
    /\ pc' = [pc EXCEPT ![i] = "lookup"]
    /\ UNCHANGED <<now, skew, store, nodeIdKey, nowMilli, nodeId, saved, wake, migrated, ret,
                   curr, inflight>>
    /\ UNCHANGED pushVars
    /\ UNCHANGED runVars
    /\ UNCHANGED stratVars

\* time.Sleep(acceptableClockDrift) is over: return saved.NodeID
AllocWake(i) ==
    /\ pc[i] = "sleep"
    /\ now >= wake[i]
    /\ Return(i, saved[i].nodeId, "wait")
    /\ UNCHANGED <<now, skew, store, nodeIdKey, migrated, curr>>
    /\ UNCHANGED pushVars
    /\ UNCHANGED runVars
    /\ UNCHANGED stratVars

\* Where(key, nodeId).Updates(saved): written, or the store fails
AllocUpdate(i) ==
    /\ pc[i] \in {"update", "takeover"}
    /\ ~ctxDone
    /\ \/ /\ store' = UpdateByKeyNode(store, nodeIdKey[i], nodeId[i], saved[i])
          /\ Return(i, saved[i].nodeId, pc[i])
       \/ /\ ReturnErr(i, "update-error")
          /\ UNCHANGED store
    /\ UNCHANGED <<now, skew, nodeIdKey, migrated, curr>>
    /\ UNCHANGED pushVars
    /\ UNCHANGED runVars
    /\ UNCHANGED stratVars

\* cancel() of the lifecycle context handed to the allocator and to the
\* synchronizer
Cancel ==
    /\ ~ctxDone
    /\ ctxDone' = TRUE
    /\ inflight' = {i \in Instances : pc[i] # "idle"}
    /\ UNCHANGED <<now, skew, store, nodeIdKey, pc, nowMilli, nodeId, saved, wake, migrated,
                   ret, curr, run, tickC, currentTime, flush>>
    /\ UNCHANGED pushVars
    /\ UNCHANGED stratVars

(***************************************************************************)
(* TimeSynchronizer                                                        *)
(***************************************************************************)
\* variant: a timestamp just 10 above the value loaded is stored too
AsyncStoresInclusive(l, t) == t >= l + AsyncThreshold

\* variant: every timestamp is stored
AsyncStoresAlways(l, t) == TRUE

\* "if t > last+10": Async stores t
AsyncStores(l, t) == t > l + AsyncThreshold

\* Async(t): the value of curr after one uninterrupted call
AsyncValue(l, t) == IF AsyncStores(l, t) THEN t ELSE l

\* the larger of two timestamps
Max(a, b) == IF a > b THEN a ELSE b

\* variant: Async also writes the store
AsyncWriteThrough(i) ==
    /\ ret[i].status = "ok"
    /\ curr' = [curr EXCEPT ![i] = AsyncValue(curr[i], LocalNow(i))]
    /\ pushedMax' = Max(pushedMax, LocalNow(i))
    /\ store' = UpdateByKey(store, [key |-> nodeIdKey[i], nodeId |-> 0,
                                    time |-> AsyncValue(curr[i], LocalNow(i))])
    /\ UNCHANGED <<now, skew, nodeIdKey, apc, last, arg>>
    /\ UNCHANGED allocVars
    /\ UNCHANGED runVars
    /\ UNCHANGED stratVars

\* the ID generator of instance i, which exists once Alloc has returned a
\* node id, records the timestamp it is about to use (a call of Async that
\* no other call overlaps)
Async(i) ==
    /\ ret[i].status = "ok"
    /\ curr' = [curr EXCEPT ![i] = AsyncValue(curr[i], LocalNow(i))]
    /\ pushedMax' = Max(pushedMax, LocalNow(i))
    /\ UNCHANGED <<now, skew, store, nodeIdKey, apc, last, arg>>
    /\ UNCHANGED allocVars
    /\ UNCHANGED runVars
    /\ UNCHANGED stratVars

\* Async(t) by caller c, first half: last := m.curr.Load()
AsyncLoad(c) ==
    /\ apc[c] = "idle"
    /\ \E t \in PushValues :
          /\ arg' = [arg EXCEPT ![c] = t]
          /\ pushedMax' = IF t > pushedMax THEN t ELSE pushedMax
    /\ last' = [last EXCEPT ![c] = curr["A"]]
    /\ apc' = [apc EXCEPT ![c] = "loaded"]
    /\ UNCHANGED <<now, skew, store, nodeIdKey, curr>>
    /\ UNCHANGED allocVars
    /\ UNCHANGED runVars
    /\ UNCHANGED stratVars

\* Async(t) by caller c, second half: if t > last+10 { m.curr.Store(t) }
AsyncStore(c) ==
    /\ apc[c] = "loaded"
    /\ curr' = [curr EXCEPT !["A"] = IF AsyncStores(last[c], arg[c]) THEN arg[c] ELSE @]
    /\ apc' = [apc EXCEPT ![c] = "idle"]
    /\ last' = [last EXCEPT ![c] = 0]
    /\ arg' = [arg EXCEPT ![c] = 0]
    /\ UNCHANGED <<now, skew, store, nodeIdKey, pushedMax>>
    /\ UNCHANGED allocVars
    /\ UNCHANGED runVars
    /\ UNCHANGED stratVars

\* Run(): "go func(m *TimeSynchronizer) { for { select ..."
RunStart(i) ==
    /\ run[i] = "off"
    /\ run' = [run EXCEPT ![i] = "select"]
    /\ UNCHANGED <<now, skew, store, nodeIdKey, curr, ctxDone, tickC, currentTime, flush>>
    /\ UNCHANGED allocVars
    /\ UNCHANGED pushVars
    /\ UNCHANGED stratVars

\* the ticker sends a tick; m.ticker.C holds one tick, further ones are
\* dropped
TickerFire(i) ==
    /\ ~tickC[i]
    /\ tickC' = [tickC EXCEPT ![i] = TRUE]
    /\ UNCHANGED <<now, skew, store, nodeIdKey, curr, ctxDone, run, currentTime, flush>>
    /\ UNCHANGED allocVars
    /\ UNCHANGED pushVars
    /\ UNCHANGED stratVars

\* variant: the select has no case for m.ctx.Done()
SelectCasesNoDone(tick, done) == IF tick THEN {"tick"} ELSE {}

\* the cases of the select of Run that are ready
SelectCases(tick, done) ==
    (IF tick THEN {"tick"} ELSE {}) \cup (IF done THEN {"done"} ELSE {})

\* "case <-m.ticker.C: m.updateDB()"
RunSelectTick(i) ==
    /\ run[i] = "select"
    /\ "tick" \in SelectCases(tickC[i], ctxDone)
    /\ tickC' = [tickC EXCEPT ![i] = FALSE]
    /\ run' = [run EXCEPT ![i] = "updateDB"]
    /\ UNCHANGED <<now, skew, store, nodeIdKey, curr, ctxDone, currentTime, flush>>
    /\ UNCHANGED allocVars
    /\ UNCHANGED pushVars
    /\ UNCHANGED stratVars

\* "case <-m.ctx.Done(): ... return"
RunSelectDone(i) ==
    /\ run[i] = "select"
    /\ "done" \in SelectCases(tickC[i], ctxDone)
    /\ run' = [run EXCEPT ![i] = "done"]
    /\ UNCHANGED <<now, skew, store, nodeIdKey, curr, ctxDone, tickC, currentTime, flush>>
    /\ UNCHANGED allocVars
    /\ UNCHANGED pushVars
    /\ UNCHANGED stratVars

\* variant: the zero watermark is flushed like any other
SkipsFlushNever(w) == FALSE

\* "if currentTime == 0 { return }"
SkipsFlush(w) == w = 0

\* updateDB, first half: currentTime := m.curr.Load(), and the zero check
UpdateDBLoad(i) ==
    /\ run[i] = "updateDB"
    /\ IF SkipsFlush(curr[i])
       THEN /\ run' = [run EXCEPT ![i] = "select"]
            /\ flush' = [flush EXCEPT ![i] = "zero"]
            /\ UNCHANGED currentTime
       ELSE /\ run' = [run EXCEPT ![i] = "write"]
            /\ currentTime' = [currentTime EXCEPT ![i] = curr[i]]
            /\ UNCHANGED flush
    /\ UNCHANGED <<now, skew, store, nodeIdKey, curr, ctxDone, tickC>>
    /\ UNCHANGED allocVars
    /\ UNCHANGED pushVars
    /\ UNCHANGED stratVars

\* variant: the goroutine returns when the flush fails
AfterUpdateDBStop(failed) == IF failed THEN "done" ELSE "select"

\* updateDB returns nothing: Run goes back to its select whether the store
\* call failed (the error is logged) or not
AfterUpdateDB(failed) == "select"

\* updateDB, second half, Updates(snowflakeKv) succeeds
UpdateDBWrite(i) ==
    /\ run[i] = "write"
    /\ ~ctxDone
    /\ store' = UpdateByKey(store, [key |-> nodeIdKey[i], nodeId |-> 0,
                                    time |-> currentTime[i]])
    /\ flush' = [flush EXCEPT ![i] = "written"]
    /\ run' = [run EXCEPT ![i] = AfterUpdateDB(FALSE)]
    /\ currentTime' = [currentTime EXCEPT ![i] = 0]
    /\ UNCHANGED <<now, skew, nodeIdKey, curr, ctxDone, tickC>>
    /\ UNCHANGED allocVars
    /\ UNCHANGED pushVars
    /\ UNCHANGED stratVars

\* updateDB, second half, Updates(snowflakeKv) fails (the store is
\* unavailable, or m.ctx is cancelled): the error is logged
UpdateDBFail(i) ==
    /\ run[i] = "write"
    /\ UNCHANGED store
    /\ flush' = [flush EXCEPT ![i] = "failed"]
    /\ run' = [run EXCEPT ![i] = AfterUpdateDB(TRUE)]
    /\ currentTime' = [currentTime EXCEPT ![i] = 0]
    /\ UNCHANGED <<now, skew, nodeIdKey, curr, ctxDone, tickC>>
    /\ UNCHANGED allocVars
    /\ UNCHANGED pushVars
    /\ UNCHANGED stratVars

\* updateDB, second half: the store call
UpdateDB(i) == UpdateDBWrite(i) \/ UpdateDBFail(i)

(***************************************************************************)
(* The node-id strategies called on their own                              *)
(***************************************************************************)
\* the calls: Alloc of a hash allocator built with key k, Migration(n) of a
\* hash allocator, Alloc and Migration(n) of a random allocator
StrategyCalls ==
    {[strategy |-> "hash", op |-> "Alloc", input |-> k] : k \in StrategyKeys}
    \cup {[strategy |-> "hash", op |-> "Migration", input |-> n] : n \in NodeIds}
    \cup {[strategy |-> "rand", op |-> "Alloc", input |-> 0]}
    \cup {[strategy |-> "rand", op |-> "Migration", input |-> n] : n \in MigrationInputs}

\* the node ids call c may return
StrategyResults(c) ==
    IF c.strategy = "hash"
    THEN IF c.op = "Alloc" THEN {HashAlloc(StrategyKeyBytes[c.input])}
                           ELSE {HashMigration(c.input)}
    ELSE IF c.op = "Alloc" THEN RandAlloc
                           ELSE RandMigration(c.input)

\* the error of a strategy call: all four functions return nil
StrategyErr(c) == FALSE

\* a strategy function is called, once the call before has returned
StrategyCall ==
    /\ call = NoCall \/ result.returned
    /\ call' \in StrategyCalls
    /\ result' = NoResult
    /\ UNCHANGED <<now, skew, store, nodeIdKey, curr>>
    /\ UNCHANGED allocVars
    /\ UNCHANGED pushVars
    /\ UNCHANGED runVars

\* the call returns (nodeId, nil)
StrategyReturn ==
    /\ call # NoCall
    /\ ~result.returned
    /\ \E n \in StrategyResults(call) :
          result' = [returned |-> TRUE, nodeId |-> n, err |-> StrategyErr(call)]
    /\ UNCHANGED <<now, skew, store, nodeIdKey, curr, call>>
    /\ UNCHANGED allocVars
    /\ UNCHANGED pushVars
    /\ UNCHANGED runVars

(***************************************************************************)
(* Environment: time passes, a local clock is set back                     *)
(***************************************************************************)
Tick ==
    /\ now < MaxTime
    /\ now' = now + 1
    /\ UNCHANGED <<skew, store, nodeIdKey, curr>>
    /\ UNCHANGED allocVars
    /\ UNCHANGED pushVars
    /\ UNCHANGED runVars
    /\ UNCHANGED stratVars

\* the clock of one instance is set back, between two of its calls
ClockRollback(i) ==
    /\ pc[i] = "idle"
    /\ \A j \in Instances : skew[j] = 0
    /\ \E d \in {SmallRollback, LargeRollback} :
          skew' = [skew EXCEPT ![i] = skew[i] - d]
    /\ UNCHANGED <<now, store, nodeIdKey, curr>>
    /\ UNCHANGED allocVars
    /\ UNCHANGED pushVars
    /\ UNCHANGED runVars
    /\ UNCHANGED stratVars

(***************************************************************************)
(* Specification                                                           *)
(***************************************************************************)
InitLocal ==
    /\ now = StartTime
    /\ skew = [i \in Instances |-> 0]
    /\ nodeIdKey \in {f \in [Instances -> Keys] : f["A"] = 1}
    /\ pc = [i \in Instances |-> "idle"]
    /\ nowMilli = [i \in Instances |-> 0]
    /\ nodeId = [i \in Instances |-> 0]
    /\ saved = [i \in Instances |-> NoRow]
    /\ wake = [i \in Instances |-> 0]
    /\ migrated = [i \in Instances |-> FALSE]
    /\ ret = [i \in Instances |-> NoRet]
    /\ curr = [i \in Instances |-> 0]
    /\ apc = [c \in Callers |-> "idle"]
    /\ last = [c \in Callers |-> 0]
    /\ arg = [c \in Callers |-> 0]
    /\ pushedMax = 0
    /\ ctxDone = FALSE
    /\ inflight = {}
    /\ run = [i \in Instances |-> "off"]
    /\ tickC = [i \in Instances |-> FALSE]
    /\ currentTime = [i \in Instances |-> 0]
    /\ flush = [i \in Instances |-> "none"]
    /\ call = NoCall
    /\ result = NoResult

\* the instances are built, the table is empty
Init == InitLocal /\ store = {}

\* the table holds the row that an earlier first Alloc with the key of "B"
\* (the key of "A" or another one) created at the start
InitFlush ==
    /\ InitLocal
    /\ store = {NewRow(nodeIdKey["B"], KeyNodeId[nodeIdKey["B"]], StartTime)}

Next ==
    \/ \E i \in Instances : AllocStart(i)
    \/ \E i \in Instances : AllocFindError(i)
    \/ \E i \in Instances : AllocNotFound(i)
    \/ \E i \in Instances : AllocFound(i)
    \/ \E i \in Instances : AllocCreate(i)
    \/ \E i \in Instances : AllocWake(i)
    \/ \E i \in Instances : AllocUpdate(i)
    \/ \E i \in Instances : ClockRollback(i)
    \/ Tick

Spec == Init /\ [][Next]_vars

\* one instance with its ID generator, its background flush and the
\* cancellation of its lifecycle context
NextSync ==
    \/ AllocStart("A")
    \/ AllocStrategyError("A")
    \/ AllocCancelled("A")
    \/ AllocFindError("A")
    \/ AllocNotFound("A")
    \/ AllocFound("A")
    \/ AllocCreate("A")
    \/ AllocWake("A")
    \/ AllocUpdate("A")
    \/ Async("A")
    \/ RunStart("A")
    \/ TickerFire("A")
    \/ RunSelectTick("A")
    \/ RunSelectDone("A")
    \/ UpdateDBLoad("A")
    \/ UpdateDB("A")
    \/ Cancel
    \/ Tick

\* the other instance, which takes no step here, is built with the same key
InitSync == Init /\ nodeIdKey["B"] = nodeIdKey["A"]

SpecSync == InitSync /\ [][NextSync]_vars

\* the scheduling of the background task: the ticker keeps firing, a ready
\* case of the select is eventually chosen, a started updateDB returns, and
\* the store is reachable again and again
FairSync ==
    /\ WF_vars(TickerFire("A"))
    /\ SF_vars(RunSelectTick("A"))
    /\ SF_vars(RunSelectDone("A"))
    /\ WF_vars(UpdateDBLoad("A"))
    /\ WF_vars(UpdateDB("A"))
    /\ SF_vars(UpdateDBWrite("A"))

SpecSyncFair == SpecSync /\ FairSync

\* concurrent callers of Async on one synchronizer
NextPush ==
    \/ \E c \in Callers : AsyncLoad(c)
    \/ \E c \in Callers : AsyncStore(c)

SpecPush == Init /\ [][NextPush]_vars

\* one instance that calls Alloc again and again, while time passes and its
\* clock is set back
NextAlloc ==
    \/ AllocStart("A")
    \/ AllocFindError("A")
    \/ AllocNotFound("A")
    \/ AllocFound("A")
    \/ AllocCreate("A")
    \/ AllocWake("A")
    \/ AllocUpdate("A")
    \/ ClockRollback("A")
    \/ Tick

SpecAlloc == InitSync /\ [][NextAlloc]_vars

\* a step of a running Alloc: a store call returns, a sleep ends
AllocStep(i) ==
    \/ AllocFindError(i)
    \/ AllocNotFound(i)
    \/ AllocFound(i)
    \/ AllocCreate(i)
    \/ AllocWake(i)
    \/ AllocUpdate(i)

\* the goroutine in Alloc keeps running, every store call returns, and time
\* passes
FairAlloc ==
    /\ WF_vars(AllocStep("A"))
    /\ WF_vars(Tick)

SpecAllocFair == SpecAlloc /\ FairAlloc

\* an instance with its ID generator and its background flush, on a table
\* that already holds a row
NextFlush ==
    \/ AllocStart("A")
    \/ AllocFindError("A")
    \/ AllocNotFound("A")
    \/ AllocFound("A")
    \/ AllocCreate("A")
    \/ AllocWake("A")
    \/ AllocUpdate("A")
    \/ Async("A")
    \/ RunStart("A")
    \/ TickerFire("A")
    \/ RunSelectTick("A")
    \/ UpdateDBLoad("A")
    \/ UpdateDB("A")
    \/ Tick

SpecFlush == InitFlush /\ [][NextFlush]_vars

\* the holder of a node id with its ID generator and its background flush,
\* and a second instance built with the same key that calls Alloc
NextCross ==
    \/ \E i \in Instances : AllocStart(i)
    \/ \E i \in Instances : AllocNotFound(i)
    \/ \E i \in Instances : AllocFound(i)
    \/ \E i \in Instances : AllocCreate(i)
    \/ \E i \in Instances : AllocWake(i)
    \/ \E i \in Instances : AllocUpdate(i)
    \/ Async("A")
    \/ RunStart("A")
    \/ TickerFire("A")
    \/ RunSelectTick("A")
    \/ UpdateDBLoad("A")
    \/ UpdateDB("A")
    \/ Tick

SpecCross == InitSync /\ [][NextCross]_vars

\* one caller of Async, whose calls therefore do not overlap, while time
\* passes
NextPushSeq ==
    \/ AsyncLoad("c1")
    \/ AsyncStore("c1")
    \/ Tick

SpecPushSeq == InitSync /\ [][NextPushSeq]_vars

\* the strategies called on their own, one call after the other
NextStrategy ==
    \/ StrategyCall
    \/ StrategyReturn

SpecStrategy == InitSync /\ [][NextStrategy]_vars

TypeOK ==
    /\ now \in StartTime..MaxTime
    /\ \A i \in Instances : pc[i] \in {"idle", "lookup", "create", "sleep", "update", "takeover"}
    /\ \A i \in Instances : run[i] \in {"off", "select", "updateDB", "write", "done"}
    /\ \A r \in store : r.key \in Keys /\ r.nodeId \in NodeIds

(***************************************************************************)
(* Properties                                                              *)
(***************************************************************************)
\* instance i takes a step of its Alloc call
Stepped(i) == <<pc[i], nodeId[i], saved[i]>>' # <<pc[i], nodeId[i], saved[i]>>

\* the Alloc call of instance i returns a node id in this step
ReturnsOk(i) == pc[i] # "idle" /\ pc'[i] = "idle" /\ ret'[i].status = "ok"

\* the rows the lookup of instance i matches
Looked(i) == FindRows(store, nodeIdKey[i], nodeId[i])

\* the (key, node id) pairs present in the table
Pairs(st) == {<<r.key, r.nodeId>> : r \in st}

\* C1: when Alloc returns node id n for key k, the caller's clock is not
\* behind the watermark stored for (k, n)
C1_RollbackSafety ==
    [][\A i \in Instances :
          ReturnsOk(i) =>
             \A r \in FindRows(store', nodeIdKey[i], ret'[i].nodeId) :
                now' + skew'[i] >= r.time]_vars

\* C2: a looked-up row whose watermark exceeds the clock by more than the
\* acceptable drift makes Alloc migrate: no wait, a new candidate
\* Migration(old node id), and the lookup again
C2_LargeRollbackMigrates ==
    [][\A i \in Instances :
          (/\ pc[i] = "lookup"
           /\ Stepped(i)
           /\ pc'[i] # "idle"
           /\ \E r \in Looked(i) : r.time - nowMilli[i] > AcceptableClockDrift)
          => (/\ pc'[i] = "lookup"
              /\ migrated'[i]
              /\ nodeId'[i] = HashMigration(nodeId[i]))]_vars

\* instance i obtained its node id and renewed it within the contention
\* interval
Holds(i) == ret[i].status = "ok" /\ now - ret[i].at <= NodeIdContentionInterval

\* C3: two distinct instances that both hold a node id they renewed within
\* the contention interval do not hold the same node id
C3_NodeIdExclusive ==
    \A i, j \in Instances :
        (i # j /\ Holds(i) /\ Holds(j)) => ret[i].nodeId # ret[j].nodeId

\* C4: under concurrent Async calls the in-memory watermark never decreases
\* and, once every call has returned, equals the largest value pushed
C4_PushMonotonicMax ==
    [][/\ curr'["A"] >= curr["A"]
       /\ (\A c \in Callers : apc'[c] = "idle") => curr'["A"] = pushedMax']_vars

\* C5: over the Alloc calls, pushes and flushes of one instance the
\* watermark stored for a (key, node id) never decreases
C5_StoredWatermarkMonotonic ==
    [][\A r \in store : \A q \in store' :
          (q.key = r.key /\ q.nodeId = r.nodeId) => q.time >= r.time]_vars

\* C6: a looked-up row whose watermark is ahead of the clock by at most the
\* acceptable drift makes Alloc sleep for the drift once and then return the
\* node id of that row; neither step writes the table
C6_SmallRollbackWaits ==
    [][\A i \in Instances :
          /\ (/\ pc[i] = "lookup"
              /\ Stepped(i)
              /\ pc'[i] # "idle"
              /\ \E r \in Looked(i) : /\ r.time > nowMilli[i]
                                      /\ r.time - nowMilli[i] <= AcceptableClockDrift)
             => (/\ pc'[i] = "sleep"
                 /\ wake'[i] = now + AcceptableClockDrift
                 /\ saved'[i] \in Looked(i)
                 /\ nodeId'[i] = nodeId[i]
                 /\ store' = store)
          /\ (pc[i] = "sleep" /\ pc'[i] # "sleep")
             => (/\ now >= wake[i]
                 /\ pc'[i] = "idle"
                 /\ ret'[i].status = "ok"
                 /\ ret'[i].nodeId = saved[i].nodeId
                 /\ saved[i].nodeId = nodeId[i]
                 /\ store' = store)]_vars

\* an Alloc that found its row ahead by no more than the drift has waited
\* and returned
C6_Witness ==
    \E i \in Instances :
        /\ ret[i].status = "ok"
        /\ ret[i].path = "wait"
        /\ ret[i].ahead \in 1..AcceptableClockDrift

\* the step of C7: the lookup of the strategy's candidate finds nothing,
\* then the insert
FirstAllocLookup(i) ==
    (/\ pc[i] = "lookup"
     /\ Stepped(i)
     /\ pc'[i] # "idle"
     /\ nodeId[i] = KeyNodeId[nodeIdKey[i]]
     /\ Looked(i) = {})
    => (pc'[i] = "create" /\ store' = store /\ nodeId'[i] = nodeId[i])

FirstAllocInserted(i) ==
    /\ store' = store \cup {[key |-> nodeIdKey[i], nodeId |-> nodeId[i], time |-> nowMilli[i]]}
    /\ Cardinality(store') = Cardinality(store) + 1
    /\ ret'[i].status = "ok"
    /\ ret'[i].nodeId = nodeId[i]
    /\ nodeId[i] = KeyNodeId[nodeIdKey[i]]
    /\ nodeId[i] \in NodeIds

C8_Continuity ==
    [][\A i \in Instances :
          (/\ ReturnsOk(i)
           /\ ret[i].status = "ok"
           /\ ret'[i].path \in {"create", "update"})
          => ret'[i].nodeId = ret[i].nodeId]_vars

\* an instance has been given its node id a second time
C8_Witness ==
    \E i \in Instances :
        /\ ret[i].status = "ok"
        /\ ret[i].path = "update"
        /\ ret[i].nodeId = KeyNodeId[nodeIdKey[i]]

\* C9: a looked-up row whose watermark is not ahead of the clock is updated
\* to watermark = now (not below the watermark looked up), no row is
\* created, and the node id is returned
C9_Renewal ==
    [][\A i \in Instances :
          /\ (/\ pc[i] = "lookup"
              /\ Stepped(i)
              /\ pc'[i] # "idle"
              /\ \E r \in Looked(i) : r.time <= nowMilli[i])
             => (/\ pc'[i] \in {"update", "takeover"}
                 /\ saved'[i].time = nowMilli[i]
                 /\ \A r \in Looked(i) : saved'[i].time >= r.time
                 /\ store' = store)
          /\ (pc[i] \in {"update", "takeover"} /\ ReturnsOk(i))
             => (/\ FindRows(store', nodeIdKey[i], nodeId[i]) # {}
                 /\ \A q \in FindRows(store', nodeIdKey[i], nodeId[i]) : q.time = nowMilli[i]
                 /\ Pairs(store') = Pairs(store)
                 /\ Cardinality(store') = Cardinality(store)
                 /\ ret'[i].nodeId = nodeId[i])]_vars

\* a renewal has moved a watermark forward
C9_Witness ==
    \E i \in Instances :
        /\ ret[i].status = "ok"
        /\ ret[i].path = "update"
        /\ \E r \in store : /\ r.key = nodeIdKey[i]
                            /\ r.nodeId = ret[i].nodeId
                            /\ r.time > StartTime

\* C10: a looked-up row whose watermark is older than now minus the
\* contention interval is taken over: the call succeeds (unless the store
\* fails), the row carries the caller's node id and watermark = now, and the
\* node id is returned
C10_ContentionTakeover ==
    [][\A i \in Instances :
          /\ (/\ pc[i] = "lookup"
              /\ Stepped(i)
              /\ pc'[i] # "idle"
              /\ \E r \in Looked(i) : r.time < nowMilli[i] - NodeIdContentionInterval)
             => (/\ pc'[i] = "takeover"
                 /\ saved'[i] = [key |-> nodeIdKey[i], nodeId |-> nodeId[i],
                                 time |-> nowMilli[i]])
          /\ (pc[i] = "takeover" /\ pc'[i] = "idle" /\ ret'[i].path # "update-error")
             => (/\ ret'[i].status = "ok"
                 /\ ret'[i].nodeId = nodeId[i]
                 /\ [key |-> nodeIdKey[i], nodeId |-> nodeId[i], time |-> nowMilli[i]]
                       \in store')]_vars

\* an instance has taken over the node id another instance with the same
\* key had obtained
C10_Witness ==
    \E i, j \in Instances :
        /\ i # j
        /\ nodeIdKey[i] = nodeIdKey[j]
        /\ ret[j].status = "ok"
        /\ ret[i].status = "ok"
        /\ ret[i].path = "takeover"
        /\ ret[i].nodeId = ret[j].nodeId

\* C11: Alloc hands an instance a node id that another instance holds only
\* when the watermark it looked up is older than now minus the contention
\* interval (the takeover path)
C11_DoubleOwnershipBounded ==
    [][\A i, j \in Instances :
          (/\ i # j
           /\ ReturnsOk(i)
           /\ ret[j].status = "ok"
           /\ ret'[i].nodeId = ret[j].nodeId)
          => ret'[i].path = "takeover"]_vars

\* the call of updateDB of instance i returns in this step
FlushEnds(i) == run[i] \in {"updateDB", "write"} /\ run'[i] \notin {"updateDB", "write"}

\* C12: updateDB called while the in-memory watermark is 0 makes no store
\* call and leaves the table as it is; no flush sets a watermark to 0
C12_ZeroNotFlushed ==
    [][\A i \in Instances :
          /\ (run[i] = "updateDB" /\ run'[i] # "updateDB" /\ curr[i] = 0)
             => (/\ run'[i] = "select"
                 /\ flush'[i] = "zero"
                 /\ store' = store)
          /\ FlushEnds(i) => \A q \in store' : q.time = 0 => q \in store]_vars

\* ticks have elapsed without any Push: the record of the instance is there,
\* with the watermark Alloc gave it
C12_Witness ==
    \E i \in Instances :
        /\ flush[i] = "zero"
        /\ pushedMax = 0
        /\ \E r \in store : r.key = nodeIdKey[i] /\ r.time >= StartTime

\* C13: updateDB called with in-memory watermark w # 0 reads w and, when the
\* store call succeeds, leaves the row of the instance's key with watermark
\* exactly w, and every other row as it was
C13_FlushWritesCurrent ==
    [][\A i \in Instances :
          /\ (run[i] = "updateDB" /\ run'[i] # "updateDB" /\ curr[i] # 0)
             => (/\ run'[i] = "write"
                 /\ currentTime'[i] = curr[i]
                 /\ store' = store)
          /\ (run[i] = "write" /\ run'[i] # "write" /\ flush'[i] = "written")
             => (/\ \A r \in store : r.key = nodeIdKey[i]
                        => [r EXCEPT !.time = currentTime[i]] \in store'
                 /\ \A q \in store' : IF q.key = nodeIdKey[i]
                                      THEN q.time = currentTime[i]
                                      ELSE q \in store
                 /\ Cardinality(store') = Cardinality(store))]_vars

\* a pushed timestamp, later than the one Alloc stored, has been flushed
C13_Witness ==
    \E i \in Instances :
        /\ flush[i] = "written"
        /\ curr[i] = pushedMax
        /\ \E r \in store : /\ r.key = nodeIdKey[i]
                            /\ r.time = curr[i]
                            /\ r.time > StartTime

\* C14: every timestamp passed to Async on an instance that has a record
\* and a running, uncancelled background task is eventually covered by the
\* persisted watermark
C14_EventualPersistence ==
    \A t \in StartTime..MaxTime :
        (/\ pushedMax >= t
         /\ run["A"] # "off"
         /\ \E r \in store : r.key = nodeIdKey["A"])
        ~> (\/ ctxDone
            \/ \E r \in store : r.key = nodeIdKey["A"] /\ r.time >= t)

\* C15: once the context is cancelled the goroutine of Run ends, and from
\* then on there is no flush and no write to the table, whatever ticks wait
C15_CancelStopsRun ==
    /\ (ctxDone /\ run["A"] # "off") ~> (run["A"] = "done")
    /\ [][run["A"] = "done"
          => (/\ run'["A"] = "done"
              /\ flush'["A"] = flush["A"]
              /\ currentTime'["A"] = currentTime["A"]
              /\ store' = store)]_vars

\* the task has flushed, then ended, and a tick is waiting
C15_Witness ==
    /\ ctxDone
    /\ run["A"] = "done"
    /\ tickC["A"]
    /\ flush["A"] = "written"

\* C16: an Alloc that was running when the context was cancelled does not
\* fail because of the cancellation
C16_CancelSparesInflightAlloc ==
    [][\A i \in Instances :
          (i \in inflight /\ pc[i] # "idle" /\ pc'[i] = "idle")
          => ret'[i].path # "context-canceled"]_vars

\* C17: a flush whose store call fails changes neither the table nor the
\* in-memory watermark nor anything a caller sees, the goroutine goes back
\* to its select, and the next flush reads the watermark anew
C17_FailedFlushSwallowed ==
    [][\A i \in Instances :
          /\ (run[i] = "write" /\ run'[i] # "write" /\ flush'[i] # "written")
             => (/\ run'[i] = "select"
                 /\ flush'[i] = "failed"
                 /\ store' = store
                 /\ curr' = curr
                 /\ ret' = ret
                 /\ pc' = pc)
          /\ (flush[i] = "failed" /\ run[i] = "updateDB" /\ run'[i] = "write")
             => currentTime'[i] = curr[i]]_vars

\* after a failed flush the next tick has come to its store call, with the
\* watermark read anew
C17_Witness ==
    \E i \in Instances :
        /\ flush[i] = "failed"
        /\ run[i] = "write"
        /\ ~ctxDone
        /\ currentTime[i] = curr[i]

\* C18: a step of Async changes the in-memory watermark and nothing else:
\* not the table, not the background task, not an Alloc call
C18_PushLeavesStoreAlone ==
    [][(curr' # curr \/ pushedMax' # pushedMax)
       => (/\ store' = store
           /\ UNCHANGED <<now, skew, nodeIdKey>>
           /\ UNCHANGED allocVars
           /\ UNCHANGED runVars)]_vars

\* a Push has been accepted with updateDB under way, and the row still has
\* its older watermark
C18_Witness ==
    \E i \in Instances :
        /\ run[i] = "updateDB"
        /\ curr[i] = pushedMax
        /\ curr[i] > StartTime
        /\ \E r \in store : r.key = nodeIdKey[i] /\ r.time < curr[i]

\* the Alloc call of instance i ends in this step on a failed store call
StoreCallFails(i) ==
    /\ pc[i] # "idle"
    /\ pc'[i] = "idle"
    /\ \/ pc[i] = "lookup"
       \/ pc[i] = "create" /\ store' = store
       \/ ret'[i].path = "update-error"

\* C19: a failed lookup, insert or update ends Alloc at once with an error:
\* no node id is returned and the table is not written
C19_StoreFailureSurfaced ==
    [][\A i \in Instances :
          StoreCallFails(i)
          => (/\ ret'[i].status = "err"
              /\ ret'[i].nodeId = 0
              /\ store' = store)]_vars

\* an update has failed on an existing row
C19_Witness ==
    \E i \in Instances :
        /\ ret[i].status = "err"
        /\ ret[i].path = "update-error"
        /\ pc[i] = "idle"
        /\ \E r \in store : r.key = nodeIdKey[i]

C21_MigrationCeiling ==
    [][\A i \in Instances :
          (/\ pc[i] # "idle"
           /\ pc'[i] = "idle"
           /\ saved[i].time - nowMilli[i] > AcceptableClockDrift)
          => ret'[i].status = "err"]_vars

\* C22: every Alloc call returns (a node id or an error) when every store
\* call returns, also when the row it finds is far ahead of its clock; a
\* call is followed up to the last instant modelled, where it may be left
\* in a sleep that ends later
C22_AllocTerminates ==
    (pc["A"] # "idle") ~> (pc["A"] = "idle" \/ (pc["A"] = "sleep" /\ wake["A"] > MaxTime))

\* C22 witness: an Alloc that found a row ahead of its clock by more than
\* the acceptable drift has returned
C22_Witness ==
    /\ pc["A"] = "idle"
    /\ ret["A"].status = "ok"
    /\ ret["A"].path = "wait"
    /\ ret["A"].ahead > AcceptableClockDrift

\* C23: at every step, concurrent Alloc calls of instances built with the
\* same key included, the table holds at most one row per (key, node id),
\* and an Alloc that finds a row for its key and candidate goes on to renew
\* that row (or to wait), it does not create another
C23_RecordCreatedOnce ==
    [][/\ \A r, q \in store' : (r.key = q.key /\ r.nodeId = q.nodeId) => r = q
       /\ \A i \in Instances :
             (pc[i] = "lookup" /\ Stepped(i) /\ Looked(i) # {}) => pc'[i] # "create"
       /\ \A i \in Instances :
             (pc[i] \in {"update", "takeover", "sleep"} /\ pc'[i] = "idle")
             => Pairs(store') = Pairs(store)]_vars

\* C23 witness: two instances built with the same key both found no row and
\* both ran Create; one insert was accepted, the other rejected, and the
\* table holds one row for the key
C23_Witness ==
    \E i, j \in Instances :
        /\ i # j
        /\ nodeIdKey[i] = nodeIdKey[j]
        /\ ret[i].path = "create"
        /\ ret[j].path = "duplicate"
        /\ Cardinality({r \in store : r.key = nodeIdKey[i]}) = 1

\* C24: a call Async(t) that no other call overlaps leaves the in-memory
\* watermark at t when t is more than 10 above the watermark c it found, and
\* at c otherwise; Async(0) in particular changes nothing
C24_PushHysteresis ==
    [][\A c \in Callers :
          (/\ apc[c] = "loaded"
           /\ apc'[c] = "idle"
           /\ last[c] = curr["A"]
           /\ \A d \in Callers \ {c} : apc[d] = "idle")
          => /\ curr'["A"] = IF arg[c] > curr["A"] + AsyncThreshold THEN arg[c]
                                                                    ELSE curr["A"]
             /\ arg[c] = 0 => curr'["A"] = curr["A"]]_vars

\* C24 witness: every call has returned, one of them pushed a timestamp
\* exactly 10 above the watermark, and the watermark stayed
C24_Witness ==
    /\ \A c \in Callers : apc[c] = "idle"
    /\ curr["A"] > 0
    /\ pushedMax = curr["A"] + AsyncThreshold

\* C25: every call of Alloc and of Migration, of the hash strategy and of
\* the random strategy, for every key (the empty key included) and every
\* old node id, returns a node id in [0, 1024) and no error
C25_StrategyRange ==
    result.returned => (result.nodeId >= 0 /\ result.nodeId < 1024 /\ ~result.err)

\* C25 witness: Alloc of a hash allocator built with the empty key has
\* returned
C25_Witness ==
    /\ call = [strategy |-> "hash", op |-> "Alloc", input |-> EmptyKey]
    /\ result.returned
    /\ result.nodeId \in NodeIds

\* the call made is one of the random strategy and has not returned yet
RandPending == call.strategy = "rand" /\ ~result.returned

\* the call made is one of the random strategy and has returned
RandReturned == call.strategy = "rand" /\ result.returned

\* C27: whatever its input, a call of the random strategy's Alloc or
\* Migration may return every value of 0..1023 and returns no other value
C27_RandomCoversRange ==
    /\ RandPending => StrategyResults(call) = 0..1023
    /\ RandReturned => result.nodeId \in 0..1023

\* C27 as amended: whatever its input, a call of the random strategy's
\* Alloc or Migration may return every value of 0..1022 and returns no
\* other value
C27_RandomCoversRangeBelow1023 ==
    /\ RandPending => StrategyResults(call) = 0..1022
    /\ RandReturned => result.nodeId \in 0..1022

\* C27 witness: Migration of the random strategy has returned 1022, the
\* largest value
C27_Witness ==
    /\ RandReturned
    /\ call.op = "Migration"
    /\ call.input = 1023
    /\ result.nodeId = 1022

\* Create(saved) of instance i returns (the store call itself did not fail)
\* while the table holds no row for its key but a row of another key that
\* carries the node id it inserts
CollidingCreate(i) ==
    /\ pc[i] = "create"
    /\ pc'[i] = "idle"
    /\ ret'[i].path # "create-error"
    /\ \A q \in store : q.key # nodeIdKey[i]
    /\ \E q \in store : q.nodeId = saved[i].nodeId

C29_FlushFrame ==
    [][\A i \in Instances :
          FlushEnds(i)
          => (/\ Pairs(store') = Pairs(store)
              /\ Cardinality(store') = Cardinality(store)
              /\ \A r \in store : r.key # nodeIdKey[i] => r \in store'
              /\ flush'[i] # "written" => store' = store)]_vars

\* C29 witness: a flush has written the watermark of the instance's row
\* next to a row of another key, which still carries the watermark it was
\* created with
C29_Witness ==
    /\ flush["A"] = "written"
    /\ run["A"] = "select"
    /\ \E r \in store : r.key = nodeIdKey["A"] /\ r.time = curr["A"] /\ r.time > StartTime
    /\ \E q \in store : q.key # nodeIdKey["A"] /\ q.time = StartTime

\* C30: a flush of a non-zero watermark renews the instance's row: right
\* after it the row is not stale, an Alloc of another instance reading the
\* clock at that instant does not find "now - contention interval >
\* watermark", whether or not the instance has pushed since
C30_FlushRenews ==
    [][\A i \in Instances :
          (FlushEnds(i) /\ flush'[i] = "written")
          => \A r \in store' : r.key = nodeIdKey[i] => ~Contended(now', r.time)]_vars

\* the moves of one call of Alloc: Start, LookupRecord, then Create,
\* WaitAndReturn, ContendAndUpdate or UpdateOnly, each of which ends the
\* call, as does a failed lookup
AllocMoves ==
    {<<"idle", "lookup">>,
     <<"lookup", "create">>, <<"lookup", "sleep">>, <<"lookup", "takeover">>,
     <<"lookup", "update">>, <<"lookup", "idle">>,
     <<"create", "idle">>, <<"sleep", "idle">>, <<"takeover", "idle">>,
     <<"update", "idle">>}

\* C31: a call of Alloc goes from Start to LookupRecord and then takes one
\* of Create, WaitAndReturn, Migrate, ContendAndUpdate, UpdateOnly; Migrate
\* (a new candidate, no store mutation) is the only step back to
\* LookupRecord, every other step ends the call, and the table is changed
\* only by the step that ends a Create or an update, hence at most once per
\* call and not at all on WaitAndReturn and Migrate
C31_AllocStateMachine ==
    [][/\ \A i \in Instances :
             /\ pc'[i] # pc[i] => <<pc[i], pc'[i]>> \in AllocMoves
             /\ (pc'[i] = pc[i] /\ Stepped(i))
                => (/\ pc[i] = "lookup"
                    /\ migrated'[i]
                    /\ nodeId'[i] = HashMigration(nodeId[i])
                    /\ store' = store)
       /\ store' # store
          => \E i \in Instances :
                /\ pc[i] \in {"create", "update", "takeover"}
                /\ pc'[i] = "idle"
                /\ ret'[i].status = "ok"]_vars

\* C31 witness: one call has ended on WaitAndReturn and another on
\* ContendAndUpdate
C31_Witness ==
    \E i, j \in Instances :
        /\ pc[i] = "idle"
        /\ pc[j] = "idle"
        /\ ret[i].path = "wait"
        /\ ret[j].path = "takeover"

\* C32: no step of the subsystem (Alloc on any path, Async, a flush, the
\* cancellation) removes a row: the (key, node id) pairs of the table and
\* the number of its rows only grow
C32_NeverDeleted ==
    [][/\ Pairs(store) \subseteq Pairs(store')
       /\ Cardinality(store') >= Cardinality(store)]_vars

\* C32 witness: after a first allocation, a flush, a takeover of the stale
\* row and the cancellation, the row is still in the table
C32_Witness ==
    /\ ctxDone
    /\ flush["A"] = "written"
    /\ ret["A"].status = "ok"
    /\ ret["A"].path = "takeover"
    /\ \E r \in store : r.key = nodeIdKey["A"] /\ r.nodeId = ret["A"].nodeId

\* C33: when Alloc returns a node id n without error, n is in [0, 1024) and
\* the table then holds a row with the caller's key and node id n
C33_AllocPostcondition ==
    [][\A i \in Instances :
          ReturnsOk(i)
          => (/\ ret'[i].nodeId >= 0
              /\ ret'[i].nodeId < 1024
              /\ \E r \in store' : r.key = nodeIdKey[i] /\ r.nodeId = ret'[i].nodeId)]_vars

\* C33 witness: two instances built with the same key have both been
\* returned the node id of the one row of that key, one of them after
\* waiting
C33_Witness ==
    \E i, j \in Instances :
        /\ i # j
        /\ ret[i].status = "ok"
        /\ ret[j].status = "ok"
        /\ ret[j].path = "wait"
        /\ ret[i].nodeId = ret[j].nodeId
        /\ \E r \in store : r.key = nodeIdKey[j] /\ r.nodeId = ret[j].nodeId

\* the table after the row (k, n) was given watermark t
Renewed(st, k, n, t) ==
    {IF r.key = k /\ r.nodeId = n THEN [r EXCEPT !.time = t] ELSE r : r \in st}

\* C34: on the path where the watermark found is not ahead of the clock,
\* the contention condition makes no difference: contended or not, the row
\* to write carries the node id looked up, the update leaves the table with
\* that row at watermark = now and nothing else changed, and the node id
\* looked up is returned
C34_ContentionKeepsNodeId ==
    [][\A i \in Instances :
          /\ (pc[i] = "lookup" /\ pc'[i] \in {"update", "takeover"})
             => (/\ saved'[i].nodeId = nodeId[i]
                 /\ \A r \in Looked(i) : saved'[i].nodeId = r.nodeId
                 /\ saved'[i].time = nowMilli[i])
          /\ (pc[i] \in {"update", "takeover"} /\ ReturnsOk(i))
             => (/\ store' = Renewed(store, nodeIdKey[i], nodeId[i], nowMilli[i])
                 /\ ret'[i].nodeId = nodeId[i])]_vars

\* C34 witness: of two instances built with the same key one was returned
\* the node id on the contended path and one on the uncontended path
C34_Witness ==
    \E i, j \in Instances :
        /\ nodeIdKey[i] = nodeIdKey[j]
        /\ ret[i].status = "ok"
        /\ ret[i].path = "takeover"
        /\ ret[j].status = "ok"
        /\ ret[j].path = "update"
        /\ ret[i].nodeId = ret[j].nodeId

\* C35: while the holder "A" flushes its watermark into the row, an update
\* by an Alloc of "B" on the same row does not lower the stored watermark:
\* it does not overwrite a watermark "A" flushed after the lookup of "B"
C35_CrossUpdateKeepsWatermark ==
    [][(/\ pc["B"] \in {"update", "takeover"}
        /\ ReturnsOk("B")
        /\ nodeIdKey["B"] = nodeIdKey["A"]
        /\ flush["A"] = "written")
       => \A r \in FindRows(store, nodeIdKey["B"], nodeId["B"]) :
             \A q \in FindRows(store', nodeIdKey["B"], nodeId["B"]) :
                r.time = curr["A"] => q.time >= r.time]_vars

\* C36: over a sequence of Async calls that do not overlap, starting from
\* the unset watermark 0, the in-memory watermark only changes to the value
\* being pushed (so it is 0 or a pushed value), never decreases, is at most
\* the largest value pushed (or 0), and once a call has returned is at least
\* the largest value pushed minus 10
C36_SequentialPushBounds ==
    [][/\ curr'["A"] >= curr["A"]
       /\ curr'["A"] # curr["A"] => (apc["c1"] = "loaded" /\ curr'["A"] = arg["c1"])
       /\ curr'["A"] \in PushValues \cup {0}
       /\ curr'["A"] <= Max(0, pushedMax')
       /\ apc'["c1"] = "idle" => curr'["A"] >= pushedMax' - 10]_vars

\* C36 witness: the calls have returned and the last one, which pushed the
\* largest value so far, one above the watermark, was dropped
C36_Witness ==
    /\ apc["c1"] = "idle"
    /\ curr["A"] > 0
    /\ pushedMax = curr["A"] + 1

=============================================================================
